---- MODULE Spec2Model ----
(***************************************************************************)
(* FACET MCP server: connection loop (protocol/transport.py), dispatch     *)
(* engine and tool handlers (server.py), execution engine (core/facets.py) *)
(* and validator cache (core/validator.py).                                *)
(*                                                                         *)
(* Python values are modelled as follows.  A dict is a function with a     *)
(* domain of strings; None and an absent key read through dict.get are the *)
(* string None.  A JSON value whose Python type decides a branch (the      *)
(* envelope's data, a tool's parameters and their fields) is tagged with   *)
(* its type, [ty |-> "object", obj |-> dict], [ty |-> "string", str |-> s], *)
(* [ty |-> "array", arr |-> sequence], [ty |-> "number", num |-> n] or     *)
(* [ty |-> "null"]; a dict whose insertion order matters is                *)
(* [ty |-> "object", items |-> <<key, value>> pairs].  A string is a       *)
(* sequence of one-character strings and a lens specification a sequence   *)
(* of symbols.  A call that can raise returns [ok |-> TRUE, val |-> v] or  *)
(* [ok |-> FALSE, exc |-> class, msg |-> the exception's text].            *)
(***************************************************************************)
EXTENDS Integers, Sequences, FiniteSets, TLC

\* ------------------------------------------------------------------ bounds
\* Frames the clients send in one run, over all connections.
MaxFrames == 2
\* Frames a client may have written that the server has not read yet.
MaxInbox == 2

Conns == {"c1", "c2"}

None == "None"
NoLoop == "idle"

\* ------------------------------------------------------ Python primitives
Get(d, k) == IF k \in DOMAIN d THEN d[k] ELSE None
GetD(d, k, default) == IF k \in DOMAIN d THEN d[k] ELSE default
EmptyDict == <<>>
Range(s) == {s[i] : i \in DOMAIN s}

\* The element of a one-element set.  The({e : x \in {v}}) is e with x
\* bound to the value of v: v is evaluated once, as a local variable that
\* is assigned once and read several times is.
The(S) == CHOOSE y \in S : TRUE

Ok(v) == [ok |-> TRUE, val |-> v]
\* raise cls(msg): str(e) is msg, type(e).__name__ is cls.
Raise(cls, msg) == [ok |-> FALSE, exc |-> cls, msg |-> msg]

JObj(d) == [ty |-> "object", obj |-> d]
JDict(items) == [ty |-> "object", items |-> items]
JStr(s) == [ty |-> "string", str |-> s]
JArr(s) == [ty |-> "array", arr |-> s]
JSet(S) == [ty |-> "array", members |-> S]
JNum(n) == [ty |-> "number", num |-> n]
JNull == [ty |-> "null"]

\* ------------------------------------------------- external collaborators
\* facet.parse_facet / facet.to_json: opaque to this repository.  A source
\* containing "!" is rejected with FACETError, an unexpanded "{" likewise;
\* a source containing "~" makes the parser loop forever.
Chars(s) == {s[i] : i \in 1..Len(s)}
ParserDiverges(src) == "~" \in Chars(src)
parse_facet(src) ==
    IF "!" \in Chars(src) \/ "{" \in Chars(src)
    THEN Raise("FACETError", "document rejected")
    ELSE Ok([document |-> src])

\* facet.lenses.apply_lenses(text, [(name, arg)]): "trim" strips blanks at
\* both ends, "limit" keeps the first arg characters (it needs an integer);
\* any other name raises.
RECURSIVE LStrip(_)
LStrip(s) == IF s # <<>> /\ Head(s) = " " THEN LStrip(Tail(s)) ELSE s
RECURSIVE RStrip(_)
RStrip(s) == IF s # <<>> /\ s[Len(s)] = " " THEN RStrip(SubSeq(s, 1, Len(s) - 1)) ELSE s
NoArg == -1
apply_lenses(text, name, arg) ==
    IF text.ty # "string" THEN Raise("TypeError", "text is not a string")
    ELSE IF name = "trim" THEN Ok(JStr(LStrip(RStrip(text.str))))
    ELSE IF name = "limit" /\ arg # NoArg
         THEN Ok(JStr(SubSeq(text.str, 1, IF arg < Len(text.str) THEN arg ELSE Len(text.str))))
    ELSE Raise("LensError", "unknown lens")

\* jsonschema, on the fragment of JSON Schema used here.  A schema arrives
\* as a mapping given by its items in insertion order, <<key, value>> pairs
\* whose values are sequences of strings: "type" (<<"object">> is the one
\* type name the draft knows here) and "required" (the keys the data must
\* hold).  SchemaDict is the Python dict of those items: equal for the same
\* items in any order.
KnownTypes == {<<"object">>}
SchemaDict(items) ==
    [k \in {items[i][1] : i \in DOMAIN items} |->
        items[CHOOSE i \in DOMAIN items : items[i][1] = k][2]]
\* Draft7Validator(schema): the validator object keeps the schema.
Draft7Validator(schema) == [schema |-> SchemaDict(schema)]
\* The meta-schema turns down an unknown type name; check_schema then
\* raises SchemaError.
SchemaIsValid(d) == ~("type" \in DOMAIN d /\ d.type \notin KnownTypes)
check_schema(schema) ==
    IF SchemaIsValid(SchemaDict(schema)) THEN Ok(None) ELSE Raise("SchemaError", "schema rejected")
\* iter_errors of a validator of a valid schema: one error per required
\* key the data lacks, and one when the data is not of the schema's type.
iter_errors(validator, data) ==
    (IF "type" \in DOMAIN validator.schema /\ data.ty # "object" THEN {"type"} ELSE {})
    \cup (IF "required" \in DOMAIN validator.schema /\ data.ty = "object"
          THEN Range(validator.schema.required) \ DOMAIN data.obj
          ELSE {})
\* What iter_errors of a validator built from an invalid schema does is the
\* library's business: it raises, or yields errors, or yields none.
IterOnInvalid == {"raises", "errors", "clean"}

\* ------------------------------------------- core/facets.py TemplateEngine
Replace_FirstOnly(s, old, new) ==
    IF \E i \in 1..Len(s) : i + Len(old) - 1 <= Len(s) /\ SubSeq(s, i, i + Len(old) - 1) = old
    THEN The({SubSeq(s, 1, i - 1) \o new \o SubSeq(s, i + Len(old), Len(s)) :
              i \in {CHOOSE i \in 1..Len(s) :
                        /\ i + Len(old) - 1 <= Len(s)
                        /\ SubSeq(s, i, i + Len(old) - 1) = old
                        /\ \A j \in 1..(i - 1) : SubSeq(s, j, j + Len(old) - 1) # old}})
    ELSE s

\* str.replace(old, new): every occurrence, leftmost first, none overlapping.
RECURSIVE Replace(_, _, _)
Replace(s, old, new) ==
    IF Len(s) < Len(old) THEN s
    ELSE IF SubSeq(s, 1, Len(old)) = old
         THEN new \o Replace(SubSeq(s, Len(old) + 1, Len(s)), old, new)
         ELSE <<Head(s)>> \o Replace(Tail(s), old, new)

\* str(value) / json.dumps(value) of a tagged value, as a string.
Render(value) ==
    IF value.ty = "string" THEN value.str
    ELSE IF value.ty = "number" THEN <<ToString(value.num)>>
    ELSE <<"[", "]">>

\* variables: the dict's items in insertion order, <<key, value>> pairs.
RECURSIVE substitute_variables(_, _)
substitute_variables(facet_source, variables) ==
    IF variables = <<>> THEN facet_source
    ELSE LET key == Head(variables)[1]
             value == Head(variables)[2]
             placeholder == <<"{", "{">> \o key \o <<"}", "}">>
         IN substitute_variables(Replace(facet_source, placeholder, Render(value)),
                                 Tail(variables))

\* ---------------------------------------------- core/facets.py FACETEngine
Elapsed == 1

FACETExecutionResult_to_dict(result, execution_time_ms) ==
    result @@ ("_meta" :> [execution_time_ms |-> execution_time_ms])

FACETExecutionError_to_dict(error, error_type) ==
    [success |-> FALSE, error |-> error, error_type |-> error_type]

\* execute_facet never raises: every exception becomes an error dict that
\* is RETURNED to the caller.
execute_facet(facet_source, variables) ==
    IF variables.ty \notin {"object", "null"}
    THEN FACETExecutionError_to_dict("variables", "AttributeError")
    ELSE IF facet_source.ty # "string"
    THEN FACETExecutionError_to_dict("facet_source", "TypeError")
    ELSE LET vars == IF variables.ty = "object" THEN variables.items ELSE <<>>
             src == IF vars # <<>>
                    THEN substitute_variables(facet_source.str, vars)
                    ELSE facet_source.str
             parsed == parse_facet(src)
         IN IF parsed.ok
            THEN FACETExecutionResult_to_dict(parsed.val, Elapsed)
            ELSE FACETExecutionError_to_dict(parsed.msg, parsed.exc)

ExecuteDiverges(facet_source, variables) ==
    /\ variables.ty \in {"object", "null"}
    /\ facet_source.ty = "string"
    /\ ParserDiverges(IF variables.ty = "object" /\ variables.items # <<>>
                      THEN substitute_variables(facet_source.str, variables.items)
                      ELSE facet_source.str)

\* lens_spec is a sequence of symbols: <<"trim">>, <<"limit", "(", "3", ")">>.
Digits == <<"0", "1", "2", "3", "4", "5", "6", "7", "8", "9">>
IsInt(s) == s # <<>> /\ \A i \in 1..Len(s) : \E d \in 1..10 : Digits[d] = s[i]
RECURSIVE IntOf(_)
IntOf(s) == IF s = <<>> THEN 0
            ELSE 10 * IntOf(SubSeq(s, 1, Len(s) - 1))
                 + (CHOOSE d \in 1..10 : Digits[d] = s[Len(s)]) - 1
IndexOf(s, x) == IF \E i \in 1..Len(s) : s[i] = x
                 THEN CHOOSE i \in 1..Len(s) : s[i] = x /\ \A j \in 1..(i - 1) : s[j] # x
                 ELSE 0
\* str.split("(") of a spec that holds a "(": the pieces, in order.
RECURSIVE Split(_, _)
Split(s, sep) ==
    LET i == IndexOf(s, sep)
    IN IF i = 0 THEN <<s>>
       ELSE <<SubSeq(s, 1, i - 1)>> \o Split(SubSeq(s, i + 1, Len(s)), sep)

\* Lines 141-151: the function name and the stripped argument string.
LensSpec(lens_spec) ==
    IF "(" \in Chars(lens_spec) /\ lens_spec[Len(lens_spec)] = ")"
    THEN The({[func_name |-> parts[1],
               args_str |-> LStrip(RStrip(SubSeq(parts[2], 1, Len(parts[2]) - 1)))] :
              parts \in {Split(lens_spec, "(")}})
    ELSE [func_name |-> lens_spec, args_str |-> <<>>]

\* "".join of the symbols of a specification: the text it stands for.
RECURSIVE Join(_)
Join(s) == IF s = <<>> THEN "" ELSE Head(s) \o Join(Tail(s))

\* Lines 144-162: int() of the argument, then the library call.
LensCall(text, func_name, args_str) ==
    IF args_str # <<>> /\ ~IsInt(args_str)
    THEN Raise("ValueError", "Unsupported lens arguments: " \o Join(args_str))
    ELSE apply_lenses(text,
                      IF Len(func_name) = 1 THEN func_name[1] ELSE None,
                      IF args_str # <<>> THEN IntOf(args_str) ELSE NoArg)

\* Lines 164-165: every exception is raised again as a ValueError whose
\* text quotes the specification.
LensFailure(lens_spec, e) ==
    Raise("ValueError", "Error applying lens '" \o Join(lens_spec) \o "': " \o e.msg)

_apply_single_lens(text, lens_spec) ==
    The({IF r.ok THEN r ELSE LensFailure(lens_spec, r) :
         r \in {The({LensCall(text, p.func_name, p.args_str) :
                     p \in {LensSpec(lens_spec)}})}})

RECURSIVE apply_lenses_loop_LastFirst(_, _)
apply_lenses_loop_LastFirst(result, lenses) ==
    IF lenses = <<>> THEN Ok(result)
    ELSE The({IF r.ok
              THEN apply_lenses_loop_LastFirst(r.val, SubSeq(lenses, 1, Len(lenses) - 1))
              ELSE r :
              r \in {_apply_single_lens(result, lenses[Len(lenses)])}})

\* Lines 126-132: result = text, then one _apply_single_lens per element
\* of lenses, each on the result of the one before.
RECURSIVE apply_lenses_loop(_, _)
apply_lenses_loop(result, lenses) ==
    IF lenses = <<>> THEN Ok(result)
    ELSE The({IF r.ok THEN apply_lenses_loop(r.val, Tail(lenses)) ELSE r :
              r \in {_apply_single_lens(result, Head(lenses))}})

\* type(x).__name__ of a tagged value.
TypeName(x) ==
    IF x.ty = "string" THEN "str"
    ELSE IF x.ty = "number" THEN "int"
    ELSE IF x.ty = "array" THEN "list"
    ELSE IF x.ty = "object" THEN "dict"
    ELSE "NoneType"

\* Lines 134-135: every exception is raised again as a ValueError.
apply_lenses_to_text(text, lenses) ==
    IF lenses.ty # "array"
    THEN Raise("ValueError", "Error applying lenses: '" \o TypeName(lenses)
                                \o "' object is not iterable")
    ELSE The({IF r.ok THEN r
              ELSE Raise("ValueError", "Error applying lenses: " \o r.msg) :
              r \in {apply_lenses_loop(text, lenses.arr)}})

\* ----------------------------------------- core/validator.py SchemaValidator
ValidationResult(is_valid, errors, validated_data) ==
    [is_valid |-> is_valid, errors |-> errors, validated_data |-> validated_data]

\* The keys a schema can hold, in the order sort_keys puts them.
KeyOrder == <<"required", "type">>

RECURSIVE SortItems(_, _)
SortItems(d, keys) ==
    IF keys = <<>> THEN <<>>
    ELSE (IF Head(keys) \in DOMAIN d THEN << <<Head(keys), d[Head(keys)]>> >> ELSE <<>>)
         \o SortItems(d, Tail(keys))

schema_key_Unsorted(schema) == schema

\* json.dumps(schema, sort_keys=True): the items, sorted by key.
schema_key(schema) == SortItems(SchemaDict(schema), KeyOrder)

CacheInsert_Replace(cache, key, validator) == key :> validator

\* self.schema_cache[schema_key] = validator (line 53).
CacheInsert(cache, key, validator) == (key :> validator) @@ cache

\* Lines 50-56: the cache after the lookup-or-insert, and whether
\* check_schema raised.  The entry is stored BEFORE check_schema runs.
Compile(schema, schema_cache) ==
    IF schema_key(schema) \notin DOMAIN schema_cache
    THEN [cache |-> CacheInsert(schema_cache, schema_key(schema), Draft7Validator(schema)),
          checked |-> check_schema(schema)]
    ELSE [cache |-> schema_cache, checked |-> Ok(None)]

\* Line 56: validator = self.schema_cache[schema_key].
validator_of(schema, schema_cache) == schema_cache[schema_key(schema)]

\* Lines 59-78, with the validator in hand.  lib is the library's choice
\* for iter_errors of a validator built from an invalid schema.
Outcome(validator, data, lib) ==
    IF ~SchemaIsValid(validator.schema)
    THEN IF lib = "raises" THEN ValidationResult(FALSE, JSet({"Validation error"}), JNull)
         ELSE IF lib = "errors" THEN ValidationResult(FALSE, JSet({"library"}), JNull)
         ELSE ValidationResult(TRUE, JNull, data)
    ELSE IF iter_errors(validator, data) # {}
    THEN ValidationResult(FALSE, JSet(iter_errors(validator, data)), JNull)
    ELSE ValidationResult(TRUE, JNull, data)

\* validate(data, schema) with the cache as it stands.  Returns the result
\* and the cache afterwards.
validate(data, schema, schema_cache, lib) ==
    IF schema.ty # "object"
    THEN [res |-> ValidationResult(FALSE, JSet({"Validation error"}), JNull),
          cache |-> schema_cache]
    ELSE The({IF ~c.checked.ok
              THEN [res |-> ValidationResult(FALSE, JSet({"Invalid schema"}), JNull),
                    cache |-> c.cache]
              ELSE [res |-> Outcome(validator_of(schema.items, c.cache), data, lib),
                    cache |-> c.cache] :
              c \in {Compile(schema.items, schema_cache)}})

\* ------------------------------------------------ server.py tool handlers
\* Each handler wraps its whole body in try/except Exception and returns a
\* payload; Ok(payload) is that return, Raise(cls, msg) an exception leaving it.
Failure(error, error_type) ==
    [success |-> FALSE, error |-> error, error_type |-> error_type]

\* params[k] for each k of keys in turn: the first exception, or None.
Subscript(params, keys) ==
    IF params.ty # "object" THEN [exc |-> "TypeError", msg |-> "not subscriptable"]
    ELSE IF \E i \in 1..Len(keys) : keys[i] \notin DOMAIN params.obj
    THEN [exc |-> "KeyError",
          msg |-> keys[CHOOSE i \in 1..Len(keys) :
                         /\ keys[i] \notin DOMAIN params.obj
                         /\ \A j \in 1..(i - 1) : keys[j] \in DOMAIN params.obj]]
    ELSE [exc |-> None, msg |-> None]

\* Lines 125-129: the success payload around the engine's result.
ExecutePayload(result) ==
    [success |-> TRUE,
     result |-> result,
     execution_time_ms |-> GetD(GetD(result, "_meta", EmptyDict), "execution_time_ms", 0)]

_handle_execute(params) ==
    LET e == Subscript(params, <<"facet_source">>)
    IN IF e.exc # None THEN Ok(Failure(e.msg, e.exc))
       ELSE Ok(The({ExecutePayload(result) :
                    result \in {execute_facet(params.obj.facet_source,
                                              GetD(params.obj, "variables",
                                                   JDict(<<>>)))}}))

\* Lines 151-163: the payload for the engine's outcome r.
LensesPayload(r, lenses) ==
    IF r.ok
    THEN [success |-> TRUE, result |-> r.val, applied_lenses |-> lenses]
    ELSE Failure(r.msg, r.exc)

_handle_apply_lenses_NoCatch(params) ==
    LET e == Subscript(params, <<"input_string", "lenses">>)
    IN IF e.exc # None THEN Raise(e.exc, e.msg)
       ELSE IF ~apply_lenses_to_text(params.obj.input_string, params.obj.lenses).ok
       THEN apply_lenses_to_text(params.obj.input_string, params.obj.lenses)
       ELSE Ok(LensesPayload(apply_lenses_to_text(params.obj.input_string,
                                                  params.obj.lenses),
                             params.obj.lenses))

_handle_apply_lenses(params) ==
    LET e == Subscript(params, <<"input_string", "lenses">>)
    IN IF e.exc # None THEN Ok(Failure(e.msg, e.exc))
       ELSE Ok(The({LensesPayload(r, params.obj.lenses) :
                    r \in {apply_lenses_to_text(params.obj.input_string,
                                                params.obj.lenses)}}))

ValidatePayload_ErrorsWhenValid(v) ==
    [payload |-> Ok([success |-> TRUE,
                     valid |-> v.res.is_valid,
                     errors |-> IF v.res.is_valid THEN v.res.errors ELSE JNull]),
     cache |-> v.cache]

\* Lines 177-181: the payload for the validator's outcome v.
ValidatePayload(v) ==
    [payload |-> Ok([success |-> TRUE,
                     valid |-> v.res.is_valid,
                     errors |-> IF ~v.res.is_valid THEN v.res.errors ELSE JNull]),
     cache |-> v.cache]

\* Returns the payload and the validator cache afterwards.
_handle_validate_schema(params, schema_cache, lib) ==
    LET e == Subscript(params, <<"json_object", "json_schema">>)
    IN IF e.exc # None
       THEN [payload |-> Ok(Failure(e.msg, e.exc)), cache |-> schema_cache]
       ELSE The({ValidatePayload(v) :
                 v \in {validate(params.obj.json_object, params.obj.json_schema,
                                 schema_cache, lib)}})

\* ------------------------------------------ protocol/messages.py MCPMessage
MCPMessage(type, data) == [type |-> type, data |-> data, id |-> None, timestamp |-> JNull]

to_dict(m) ==
    [type |-> m.type, data |-> m.data]
      @@ (IF m.id # None /\ m.id # "" THEN "id" :> m.id ELSE <<>>)
      @@ (IF m.timestamp.ty = "number" /\ m.timestamp.num # 0
          THEN "timestamp" :> m.timestamp ELSE <<>>)

from_dict(data) ==
    IF "type" \notin DOMAIN data THEN Raise("KeyError", "'type'")
    ELSE IF "data" \notin DOMAIN data THEN Raise("KeyError", "'data'")
    ELSE Ok([type |-> data.type, data |-> data.data,
             id |-> Get(data, "id"), timestamp |-> GetD(data, "timestamp", JNull)])

\* ------------------------------------------------ server.py FACETMCPServer
_initialize_tools_Misnamed ==
    [execute |-> [name |-> "run", description |-> "Executes a FACET document",
                  parameters |-> <<"facet_source">>, handler |-> "_handle_execute"],
     apply_lenses |-> [name |-> "apply_lenses", description |-> "Applies lenses",
                       parameters |-> <<"input_string", "lenses">>,
                       handler |-> "_handle_apply_lenses"],
     validate_schema |-> [name |-> "validate_schema", description |-> "Validates JSON",
                          parameters |-> <<"json_object", "json_schema">>,
                          handler |-> "_handle_validate_schema"]]

\* Lines 47-111: the dict of MCPTool descriptors, keyed by tool name.
_initialize_tools ==
    [execute |-> [name |-> "execute", description |-> "Executes a FACET document",
                  parameters |-> <<"facet_source">>, handler |-> "_handle_execute"],
     apply_lenses |-> [name |-> "apply_lenses", description |-> "Applies lenses",
                       parameters |-> <<"input_string", "lenses">>,
                       handler |-> "_handle_apply_lenses"],
     validate_schema |-> [name |-> "validate_schema", description |-> "Validates JSON",
                          parameters |-> <<"json_object", "json_schema">>,
                          handler |-> "_handle_validate_schema"]]

\* self.tools, assigned in __init__ (line 45) from _initialize_tools().
VARIABLE tools

\* list(self.tools.keys()): the names in the dict's insertion order.
ToolNames == <<"execute", "apply_lenses", "validate_schema">>

\* tool.handler(params): the payload and the validator cache afterwards.
CallHandler(handler, params, schema_cache, lib) ==
    IF handler = "_handle_execute"
    THEN [payload |-> _handle_execute(params), cache |-> schema_cache]
    ELSE IF handler = "_handle_apply_lenses"
    THEN [payload |-> _handle_apply_lenses(params), cache |-> schema_cache]
    ELSE _handle_validate_schema(params, schema_cache, lib)

ToolResultData_NoId(tool_call, result) ==
    [tool_call_id |-> None, result |-> result]

ToolResultData_WrongKey(tool_call, result) ==
    [tool_call_id |-> Get(tool_call, "tool_call_id"), result |-> result]

ToolResultData(tool_call, result) ==
    [tool_call_id |-> Get(tool_call, "id"), result |-> result]

UnknownToolData_NoList(tool_name) ==
    [error |-> "Unknown tool: " \o tool_name]

UnknownToolData(tool_name) ==
    [error |-> "Unknown tool: " \o tool_name, available_tools |-> ToolNames]

ToolsListData_WithHandler ==
    [tools |-> [i \in 1..Len(ToolNames) |-> tools[ToolNames[i]]]]

\* Lines 219-230: one entry per value of self.tools, in insertion order.
ToolsListData ==
    [tools |-> [i \in 1..Len(ToolNames) |->
                   [name |-> tools[ToolNames[i]].name,
                    description |-> tools[ToolNames[i]].description,
                    parameters |-> tools[ToolNames[i]].parameters]]]

UnknownTypeData_NoName(type) ==
    [error |-> "Unknown message type"]

\* Lines 232-236.
UnknownTypeData(type) ==
    [error |-> "Unknown message type: " \o type]

\* handle_message(message): the response, the cache afterwards and the
\* handler that ran (None when none did); it raises when data has no get
\* or when the handler raises.
\* Lines 199-207: h is what the handler did.
ToolResult(tool_call, tool, h) ==
    IF ~h.payload.ok THEN h.payload
    ELSE Ok([response |-> MCPMessage("tool_result",
                                     ToolResultData(tool_call, h.payload.val)),
             cache |-> h.cache, invoked |-> tool.handler])

handle_message(message, schema_cache, lib) ==
    IF message.type = "tool_call"
    THEN IF message.data.ty # "object"
         THEN Raise("AttributeError",
                    "'" \o TypeName(message.data) \o "' object has no attribute 'get'")
         ELSE LET tool_call == message.data.obj
                  tool_name == Get(tool_call, "name")
              IN IF tool_name \in DOMAIN tools
                 THEN The({ToolResult(tool_call, tools[tool_name], h) :
                           h \in {CallHandler(tools[tool_name].handler,
                                              GetD(tool_call, "parameters",
                                                   JObj(EmptyDict)),
                                              schema_cache, lib)}})
                 ELSE Ok([response |-> MCPMessage("error", UnknownToolData(tool_name)),
                          cache |-> schema_cache, invoked |-> None])
    ELSE IF message.type = "list_tools"
    THEN Ok([response |-> MCPMessage("tools_list", ToolsListData),
             cache |-> schema_cache, invoked |-> None])
    ELSE Ok([response |-> MCPMessage("error", UnknownTypeData(message.type)),
             cache |-> schema_cache, invoked |-> None])

\* The handler of this message never returns (the parser loops).
Diverges(message) ==
    /\ message.type = "tool_call"
    /\ message.data.ty = "object"
    /\ Get(message.data.obj, "name") = "execute"
    /\ LET params == GetD(message.data.obj, "parameters", JObj(EmptyDict))
       IN /\ Subscript(params, <<"facet_source">>).exc = None
          /\ ExecuteDiverges(params.obj.facet_source,
                             GetD(params.obj, "variables", JDict(<<>>)))

\* --------------------------------------- protocol/transport.py MCPClient
\* call_tool on the response it received: the value returned, or the raise.
call_tool(response) ==
    IF response.type = "tool_result"
    THEN IF GetD(response.data, "success", FALSE) = TRUE
         THEN [returned |-> TRUE, value |-> response.data.result]
         ELSE [returned |-> FALSE, raised |-> "Tool execution failed"]
    ELSE [returned |-> FALSE, raised |-> "Unexpected response type"]

\* -------------------------------------- protocol/transport.py MCPTransport
\* A raw frame is [text |-> "garbage"] (not JSON) or
\* [text |-> "json", obj |-> the decoded object].
json_loads(message_raw) ==
    IF message_raw.text = "json" THEN Ok(message_raw.obj)
    ELSE Raise("JSONDecodeError", "Expecting value")

\* FACETMCPServer.start always passes self.handle_message.
HandlerConfigured == TRUE

ErrorEnvelope(text) == to_dict(MCPMessage("error", [error |-> text]))

CaughtByLoop_NoJSONClause(exc) == exc # "JSONDecodeError"

\* except json.JSONDecodeError (line 115) and except Exception (line 123):
\* between them they catch every exception the try block raises.
CaughtByLoop(exc) == TRUE

\* The body of the receive loop for one frame (lines 92-129): the envelope
\* it sends, the validator cache afterwards and the handler that ran.
\* fatal: an exception left the body, which ends the loop (lines 131-137).
\* Lines 123-129: the generic error envelope for the exception e; it
\* carries str(e).
InternalError(e, schema_cache) ==
    [send |-> ErrorEnvelope("Internal server error: " \o e.msg),
     cache |-> schema_cache, invoked |-> None, fatal |-> ~CaughtByLoop(e.exc)]

\* Lines 101-106: r is what the message handler returned or raised.
Respond(r, schema_cache) ==
    IF ~r.ok THEN InternalError(r, schema_cache)
    ELSE [send |-> to_dict(r.val.response),
          cache |-> r.val.cache, invoked |-> r.val.invoked, fatal |-> FALSE]

\* Lines 95-113: message is what from_dict returned or raised.
Handle(message, schema_cache, lib) ==
    IF ~message.ok THEN InternalError(message, schema_cache)
    ELSE IF ~HandlerConfigured
    THEN [send |-> ErrorEnvelope("No message handler configured"),
          cache |-> schema_cache, invoked |-> None, fatal |-> FALSE]
    ELSE The({Respond(r, schema_cache) :
              r \in {handle_message(message.val, schema_cache, lib)}})

LoopBody(message_raw, schema_cache, lib) ==
    IF ~json_loads(message_raw).ok
    THEN [send |-> ErrorEnvelope("Invalid JSON format"),
          cache |-> schema_cache, invoked |-> None,
          fatal |-> ~CaughtByLoop(json_loads(message_raw).exc)]
    ELSE Handle(from_dict(json_loads(message_raw).val), schema_cache, lib)

\* The frame never gets a response because its handler never returns.
FrameDiverges(message_raw) ==
    /\ json_loads(message_raw).ok
    /\ from_dict(message_raw.obj).ok
    /\ Diverges(from_dict(message_raw.obj).val)

\* ---------------------------------------------------------------- clients
IdOf(c, n) == c \o "-" \o ToString(n)

ToolCallFrame(id, name, parameters) ==
    [text |-> "json",
     obj |-> [type |-> "tool_call",
              data |-> JObj([id |-> id, name |-> name, parameters |-> parameters])]]

\* ToolCall.to_message (messages.py lines 69-79): the id goes into the data
\* and onto the envelope.
ToolCall_to_message(name, parameters, id) ==
    [type |-> "tool_call",
     data |-> JObj([name |-> name, parameters |-> parameters, id |-> id]),
     id |-> id, timestamp |-> JNull]

\* A valid schema, the same schema with its keys the other way round, and
\* a schema whose type name no draft knows.
GoodSchema == JDict(<< <<"type", <<"object">>>>, <<"required", <<"name">>>> >>)
GoodSchemaReordered == JDict(<< <<"required", <<"name">>>>, <<"type", <<"object">>>> >>)
BadSchema == JDict(<< <<"type", <<"invalid_type">>>> >>)
Schemas == {GoodSchema.items, GoodSchemaReordered.items, BadSchema.items}

\* The caches the validator can hold with these schemas.
RECURSIVE CacheOf(_)
CacheOf(S) ==
    IF S = {} THEN EmptyDict
    ELSE LET s == CHOOSE s \in S : TRUE
         IN CacheInsert(CacheOf(S \ {s}), schema_key(s), Draft7Validator(s))
Caches == {CacheOf(S) : S \in SUBSET Schemas}

\* The frames client c may write as its n-th frame (a tuple: the frames
\* are of different shapes).
Catalog(c, n) ==
    LET id == IdOf(c, n)
    IN << [text |-> "garbage"],
         [text |-> "json", obj |-> [data |-> JObj(EmptyDict)]],
         [text |-> "json", obj |-> [type |-> "list_tools"]],
         [text |-> "json", obj |-> [type |-> "list_tools", data |-> JObj(EmptyDict)]],
         [text |-> "json", obj |-> [type |-> "ping", data |-> JObj(EmptyDict)]],
         [text |-> "json", obj |-> [type |-> "tool_call", data |-> JStr(<<"x">>)]],
         [text |-> "json",
          obj |-> [type |-> "tool_call",
                   data |-> JObj([id |-> id, parameters |-> JObj(EmptyDict)])]],
         [text |-> "json",
          obj |-> [type |-> "tool_call",
                   data |-> JObj([name |-> "apply_lenses",
                                  parameters |-> JObj([input_string |-> JStr(<<c, " ">>),
                                                       lenses |-> JArr(<< <<"trim">> >>)])])]],
         ToolCallFrame(id, "nope", JObj(EmptyDict)),
         ToolCallFrame(id, "execute", JObj([facet_source |-> JStr(<<"@", c>>)])),
         ToolCallFrame(id, "execute", JObj([facet_source |-> JStr(<<"@", "!">>)])),
         ToolCallFrame(id, "execute", JObj([facet_source |-> JStr(<<"@", "~">>)])),
         ToolCallFrame(id, "execute", JObj(EmptyDict)),
         ToolCallFrame(id, "execute",
                       JObj([facet_source |-> JStr(<<"{", "{", "v", "}", "}">>),
                             variables |-> JDict(<< <<<<"v">>, JStr(<<c>>)>> >>)])),
         ToolCallFrame(id, "apply_lenses",
                       JObj([input_string |-> JStr(<<" ", c, " ">>),
                             lenses |-> JArr(<< <<"trim">>, <<"limit", "(", "1", ")">> >>)])),
         ToolCallFrame(id, "apply_lenses",
                       JObj([input_string |-> JStr(<<c>>),
                             lenses |-> JArr(<< <<"bogus">> >>)])),
         ToolCallFrame(id, "apply_lenses",
                       JObj([input_string |-> JStr(<<c>>), lenses |-> JNum(5)])),
         ToolCallFrame(id, "validate_schema",
                       JObj([json_object |-> JObj([name |-> c]), json_schema |-> GoodSchema])),
         ToolCallFrame(id, "validate_schema",
                       JObj([json_object |-> JObj(EmptyDict), json_schema |-> GoodSchema])),
         ToolCallFrame(id, "validate_schema",
                       JObj([json_object |-> JObj(EmptyDict), json_schema |-> BadSchema])),
         ToolCallFrame(id, "validate_schema",
                       JObj([json_object |-> JObj([name |-> c]),
                             json_schema |-> GoodSchemaReordered])),
         [text |-> "json",
          obj |-> to_dict(ToolCall_to_message(
                      "apply_lenses",
                      JObj([input_string |-> JStr(<<c>>), lenses |-> JArr(<<>>)]),
                      id))] >>

\* ------------------------------------------------------- kinds of frames
Decodable(raw) == json_loads(raw).ok /\ from_dict(raw.obj).ok

\* A tool_call envelope whose data is a mapping.
IsToolCall(raw) ==
    /\ Decodable(raw)
    /\ raw.obj.type = "tool_call"
    /\ raw.obj.data.ty = "object"

IsRegisteredCall(raw) ==
    IsToolCall(raw) /\ Get(raw.obj.data.obj, "name") \in DOMAIN tools

ParamsOf(raw) == GetD(raw.obj.data.obj, "parameters", JObj(EmptyDict))

\* A call to a registered tool whose handler meets an exception: a
\* parameter is missing or ill-typed, or the collaborator raises.
IsFailingCall(raw) ==
    /\ IsRegisteredCall(raw)
    /\ LET name == raw.obj.data.obj.name
           params == ParamsOf(raw)
       IN \/ Subscript(params, tools[name].parameters).exc # None
          \/ /\ name = "apply_lenses"
             /\ ~apply_lenses_to_text(params.obj.input_string, params.obj.lenses).ok

FrameKind(raw) ==
    IF ~Decodable(raw) THEN "undecodable"
    ELSE IF IsFailingCall(raw) THEN "failing"
    ELSE "other"

\* ------------------------------------------------------------------ state
VARIABLES
    connections,   \* MCPTransport.connections
    schema_cache,  \* SchemaValidator.schema_cache: key -> validator
    pc,            \* per connection: where its _handle_connection task stands
    inbox,         \* per connection: frames written by the client, not yet read
    cur,           \* per connection: the frame being handled (at most one)
    resp,          \* per connection: the envelope about to be sent, with
                   \*   the frame it answers and the handler that ran
    last,          \* per connection: the latest envelope the client received
    nin,           \* per connection: frames the client has written
    nout,          \* per connection: envelopes the client has received
    running,       \* the task that holds the event loop, or NoLoop
    server,        \* MCPTransport.server: "serving", "closing" (close() was
                   \*   called) or "closed" (wait_closed() has returned)
    call,          \* the call made directly on the engine or the codec, as
                   \*   unit tests make it, with what it returned;
                   \*   [fn |-> "none"] if none
    client         \* an MCPClient and its socket: frames on their way to
                   \*   the server, envelopes received and not yet read,
                   \*   the call in progress and how the last call ended

vars == <<connections, schema_cache, pc, inbox, cur, resp, last, nin, nout, running,
          server, tools, call, client>>

\* The state of the server and its transport.
serverVars == <<connections, schema_cache, pc, inbox, cur, resp, last, nin, nout,
                running, server, tools>>

RECURSIVE SumOver(_, _)
SumOver(f, S) == IF S = {} THEN 0
                 ELSE LET x == CHOOSE x \in S : TRUE IN f[x] + SumOver(f, S \ {x})

Init ==
    /\ connections = {}
    /\ schema_cache = EmptyDict
    /\ pc = [c \in Conns |-> "idle"]
    /\ inbox = [c \in Conns |-> <<>>]
    /\ cur = [c \in Conns |-> <<>>]
    /\ resp = [c \in Conns |-> <<>>]
    /\ last = [c \in Conns |-> <<>>]
    /\ nin = [c \in Conns |-> 0]
    /\ nout = [c \in Conns |-> 0]
    /\ running = NoLoop
    /\ server = "serving"
    /\ tools = _initialize_tools
    /\ call = [fn |-> "none"]
    /\ client = [websocket |-> None, wire |-> <<>>, rx |-> <<>>, calls |-> 0,
                 pending |-> <<>>, ret |-> <<>>]

Register_Nothing(conns, c) == conns

\* self.connections.add(websocket): line 86.
Register(conns, c) == conns \cup {c}

\* The listening socket takes connections until Server.close() is called.
Listening == server = "serving"

\* websockets.serve starts _handle_connection(websocket): lines 85-86.
Accept(c) ==
    /\ running = NoLoop
    /\ Listening
    /\ pc[c] = "idle"
    /\ pc' = [pc EXCEPT ![c] = "receiving"]
    /\ connections' = Register(connections, c)
    /\ UNCHANGED <<schema_cache, inbox, cur, resp, last, nin, nout, running, server, tools, call, client>>

\* The frame client c wrote last: still queued, being handled, or answered.
PrevWritten(c) ==
    IF inbox[c] # <<>> THEN inbox[c][Len(inbox[c])]
    ELSE IF cur[c] # <<>> THEN cur[c][1]
    ELSE last[c][1].req

\* The client writes a frame; it need not wait for earlier replies.  The
\* frame is tagged with its connection, its number on the connection,
\* whether an earlier frame was still unanswered when it was written, and
\* the kind of the frame written before it.
ClientSend(c) ==
    /\ pc[c] \in {"receiving", "dispatching", "sending"}
    /\ Len(inbox[c]) < MaxInbox
    /\ SumOver(nin, Conns) < MaxFrames
    /\ \E i \in DOMAIN Catalog(c, nin[c] + 1) :
          inbox' = [inbox EXCEPT ![c] =
                      Append(@, [raw |-> Catalog(c, nin[c] + 1)[i],
                                 conn |-> c,
                                 seq |-> nin[c] + 1,
                                 early |-> nin[c] > nout[c],
                                 prev |-> IF nin[c] = 0 THEN "none"
                                          ELSE FrameKind(PrevWritten(c).raw)])]
    /\ nin' = [nin EXCEPT ![c] = @ + 1]
    /\ UNCHANGED <<connections, schema_cache, pc, cur, resp, last, nout, running, server, tools, call, client>>

NextFrame_Newest(q) == q[Len(q)]

\* async for message_raw in websocket: frames arrive in the order written.
NextFrame(q) == Head(q)

Discard_All(conns, c) == {}

\* self.connections.discard(websocket): line 137.
Discard(conns, c) == conns \ {c}

CanRead_WhileSending(c) == pc[c] \in {"receiving", "sending"}

\* The loop reads the next frame only when the previous reply has been sent.
CanRead(c) == pc[c] = "receiving"

Receive(c) ==
    /\ running = NoLoop
    /\ CanRead(c)
    /\ inbox[c] # <<>>
    /\ cur' = [cur EXCEPT ![c] = <<NextFrame(inbox[c])>>]
    /\ inbox' = [inbox EXCEPT ![c] = Tail(@)]
    /\ pc' = [pc EXCEPT ![c] = "dispatching"]
    /\ running' = c
    /\ UNCHANGED <<connections, schema_cache, resp, last, nin, nout, server, tools, call, client>>

\* Lines 92-129 up to the send: decode, dispatch, run the handler.  None of
\* it awaits anything that suspends, so the task keeps the event loop from
\* Receive until the envelope is ready; a handler that does not return
\* keeps it for ever.
Dispatch(c) ==
    /\ running = c
    /\ pc[c] = "dispatching"
    /\ ~FrameDiverges(cur[c][1].raw)
    /\ \E lib \in IterOnInvalid :
       \E out \in {LoopBody(cur[c][1].raw, schema_cache, lib)} :
             IF out.fatal
             THEN /\ pc' = [pc EXCEPT ![c] = "failed"]
                  /\ connections' = Discard(connections, c)
                  /\ UNCHANGED <<resp, schema_cache>>
             ELSE /\ resp' = [resp EXCEPT ![c] = <<[env |-> out.send, req |-> cur[c][1],
                                                    invoked |-> out.invoked]>>]
                  /\ schema_cache' = out.cache
                  /\ pc' = [pc EXCEPT ![c] = "sending"]
                  /\ UNCHANGED connections
    /\ running' = NoLoop
    /\ UNCHANGED <<inbox, cur, last, nin, nout, server, tools, call, client>>

AfterSend_Return == "closed"

\* The end of the loop body: the task goes back to the async for (line 91)
\* and waits for the next frame.
AfterSend == "receiving"

SendTarget_Broadcast(c) == connections

\* await websocket.send(...): the envelope goes to this task's own socket.
SendTarget(c) == {c}

Send(c) ==
    /\ running = NoLoop
    /\ pc[c] = "sending"
    /\ last' = [d \in Conns |->
                  IF d \in SendTarget(c)
                  THEN <<[env |-> resp[c][1].env, req |-> resp[c][1].req,
                          invoked |-> resp[c][1].invoked,
                          call_tool |-> call_tool(resp[c][1].env)]>>
                  ELSE last[d]]
    /\ nout' = [d \in Conns |-> IF d \in SendTarget(c) THEN nout[d] + 1 ELSE nout[d]]
    /\ resp' = [resp EXCEPT ![c] = <<>>]
    /\ cur' = [cur EXCEPT ![c] = <<>>]
    /\ pc' = [pc EXCEPT ![c] = AfterSend]
    /\ UNCHANGED <<connections, schema_cache, inbox, nin, running, server, tools, call, client>>

\* The peer closes: the async for ends and the finally clause (line 137)
\* removes the connection.
ClientClose(c) ==
    /\ running = NoLoop
    /\ pc[c] = "receiving"
    /\ inbox[c] = <<>>
    /\ pc' = [pc EXCEPT ![c] = "closed"]
    /\ connections' = Discard(connections, c)
    /\ UNCHANGED <<schema_cache, inbox, cur, resp, last, nin, nout, running, server, tools, call, client>>

\* The transport fails while the task waits for a frame (the peer vanished,
\* a protocol violation): the async for raises, one of the outer except
\* clauses (lines 131-134) takes it and the finally clause runs.  Frames
\* not yet read are lost.
TransportError(c) ==
    /\ running = NoLoop
    /\ pc[c] = "receiving"
    /\ pc' = [pc EXCEPT ![c] = "dropped"]
    /\ inbox' = [inbox EXCEPT ![c] = <<>>]
    /\ connections' = Discard(connections, c)
    /\ UNCHANGED <<schema_cache, cur, resp, last, nin, nout, running, server, tools, call, client>>

\* The reply cannot be sent (the peer is gone): websocket.send raises at
\* line 105, except Exception (line 123) takes it, the send of the error
\* reply at line 129 raises too and leaves the loop; the finally clause
\* runs.  Nothing reaches any client.
SendFails(c) ==
    /\ running = NoLoop
    /\ pc[c] = "sending"
    /\ pc' = [pc EXCEPT ![c] = "dropped"]
    /\ resp' = [resp EXCEPT ![c] = <<>>]
    /\ cur' = [cur EXCEPT ![c] = <<>>]
    /\ inbox' = [inbox EXCEPT ![c] = <<>>]
    /\ connections' = Discard(connections, c)
    /\ UNCHANGED <<schema_cache, last, nin, nout, running, server, tools, call, client>>

\* stop_server (lines 73-74): self.server.close().  From here on the
\* listener takes no connection and the library closes the open ones.
StopServer ==
    /\ running = NoLoop
    /\ server = "serving"
    /\ server' = "closing"
    /\ UNCHANGED <<connections, schema_cache, pc, inbox, cur, resp, last, nin, nout,
                   running, tools, call, client>>

\* The library closes connection c (close code 1001): the async for of its
\* task ends, and the finally clause runs.
Shutdown(c) ==
    /\ running = NoLoop
    /\ server = "closing"
    /\ pc[c] = "receiving"
    /\ pc' = [pc EXCEPT ![c] = "closed"]
    /\ inbox' = [inbox EXCEPT ![c] = <<>>]
    /\ connections' = Discard(connections, c)
    /\ UNCHANGED <<schema_cache, cur, resp, last, nin, nout, running, server, tools, call, client>>

\* server.wait_closed() returns (lines 69 and 75) once every connection
\* handler has finished: start_server and stop_server return.
WaitClosed ==
    /\ running = NoLoop
    /\ server = "closing"
    /\ \A c \in Conns : pc[c] \in {"idle", "closed", "failed", "dropped"}
    /\ server' = "closed"
    /\ UNCHANGED <<connections, schema_cache, pc, inbox, cur, resp, last, nin, nout,
                   running, tools, call, client>>

Next ==
    \/ \E c \in Conns :
          \/ Accept(c)
          \/ ClientSend(c)
          \/ Receive(c)
          \/ Dispatch(c)
          \/ Send(c)
          \/ ClientClose(c)
          \/ TransportError(c)
          \/ SendFails(c)
          \/ Shutdown(c)
    \/ StopServer
    \/ WaitClosed

Spec == Init /\ [][Next]_vars

\* The event loop runs every task that is ready: a connection task that can
\* take its next step does so eventually.  Clients need not do anything.
\* One asyncio task per connection runs _handle_connection; its steps are
\* enabled one at a time (by pc), and the event loop runs every ready task.
ConnectionTask(c) == Accept(c) \/ Receive(c) \/ Dispatch(c) \/ Send(c) \/ Shutdown(c)

\* The task awaiting server.wait_closed() is a task of the same loop.
Fairness == (\A c \in Conns : WF_vars(ConnectionTask(c))) /\ WF_vars(WaitClosed)

FairSpec == Init /\ [][Next]_vars /\ Fairness

\* ------------------------------------------- the engine, called directly
\* FACETEngine.apply_lenses_to_text and TemplateEngine.substitute_variables
\* are also called on their own (tests/test_facets_engine.py), with
\* arguments no server frame needs to carry.

\* Lenses in one list.
MaxLenses == 3
\* Pieces a template source is put together from.
MaxPieces == 3
\* Entries of a variable mapping.
MaxVariables == 2

Texts == {<<>>, <<"a", "b">>, <<" ", "a", "b", " ">>}

\* Lens specifications: three well-formed ones, then an unknown name, an
\* unclosed parenthesis, an argument that is no integer, two parenthesised
\* groups, an empty name and the empty specification.
LensSpecs ==
    {<<"trim">>, <<"limit", "(", "1", ")">>, <<"limit", "(", "0", ")">>,
     <<"bogus">>, <<"limit", "(", "1">>, <<"limit", "(", "x", ")">>,
     <<"limit", "(", "1", ")", "(", "2", ")">>, <<"(", "1", ")">>, <<>>}

RECURSIVE SeqsUpTo(_, _)
SeqsUpTo(S, n) ==
    IF n = 0 THEN {<<>>}
    ELSE SeqsUpTo(S, n - 1)
           \cup {Append(q, x) : q \in {r \in SeqsUpTo(S, n - 1) : Len(r) = n - 1}, x \in S}

LensLists == SeqsUpTo(LensSpecs, MaxLenses)

\* await engine.apply_lenses_to_text(text, lenses), as the tests call it.
ApplyLensesToText ==
    /\ call.fn = "none"
    /\ \E text \in Texts : \E lenses \in LensLists :
          call' = [fn |-> "apply_lenses_to_text", text |-> text, lenses |-> lenses,
                   ret |-> apply_lenses_to_text(JStr(text), JArr(lenses))]
    /\ UNCHANGED <<serverVars, client>>

\* Keys of variables: two names, and a key that holds braces.
Keys == {<<"a">>, <<"b">>, <<"a", "}", "}", "{", "{", "b">>}

Placeholder(key) == <<"{", "{">> \o key \o <<"}", "}">>

Pieces == {Placeholder(<<"a">>), Placeholder(<<"b">>), <<"{", "{">>, <<"}", "}">>, <<"x">>}

RECURSIVE Concat(_)
Concat(q) == IF q = <<>> THEN <<>> ELSE Head(q) \o Concat(Tail(q))

Sources == {Concat(q) : q \in SeqsUpTo(Pieces, MaxPieces)}

Values == {JStr(<<"y">>), JStr(<<"a">>), JStr(<<"{", "{", "b">>),
           JStr(Placeholder(<<"b">>)), JNum(7)}

\* A dict's items in insertion order: no key twice.
Mappings ==
    {m \in SeqsUpTo(Keys \X Values, MaxVariables) :
        \A i, j \in 1..Len(m) : m[i][1] = m[j][1] => i = j}

\* engine.substitute_variables(facet_source, variables), as the tests call it.
SubstituteVariables ==
    /\ call.fn = "none"
    /\ \E facet_source \in Sources : \E variables \in Mappings :
          call' = [fn |-> "substitute_variables", facet_source |-> facet_source,
                   variables |-> variables, again |-> FALSE,
                   ret |-> substitute_variables(facet_source, variables)]
    /\ UNCHANGED <<serverVars, client>>

\* The caller substitutes the same variables into what it got back.
SubstituteAgain ==
    /\ call.fn = "substitute_variables"
    /\ ~call.again
    /\ call' = [call EXCEPT !.facet_source = call.ret, !.again = TRUE,
                            !.ret = substitute_variables(call.ret, call.variables)]
    /\ UNCHANGED <<serverVars, client>>

EngineNext == ApplyLensesToText \/ SubstituteVariables \/ SubstituteAgain

EngineSpec == Init /\ [][EngineNext]_vars

\* ------------------------------------------- an MCPClient and its server
\* One MCPClient (transport.py lines 141-247) on one connection.  The
\* server is seen from the client's end of the socket: it answers the
\* frames in the order they were written, one envelope per frame, with the
\* envelope the body of its receive loop sends.

\* Calls one client makes.
MaxCalls == 3

\* create_tool_call_message(tool_name, parameters): call_id is left at its
\* default, None (messages.py lines 159-169).
create_tool_call_message(tool_name, parameters) ==
    ToolCall_to_message(tool_name, parameters, None)

\* list_tools on the response it received (lines 244-247).
list_tools(response) ==
    IF response.type = "tools_list"
    THEN [returned |-> TRUE, value |-> GetD(response.data, "tools", <<>>)]
    ELSE [returned |-> FALSE, raised |-> "Unexpected response type"]

\* What the n-th call of the client may be, with the message it builds: a
\* call of apply_lenses on a text of its own, a call of a tool the server
\* does not have, or list_tools.
ClientCalls(n) ==
    {[fn |-> "call_tool",
      message |-> create_tool_call_message(
                      "apply_lenses",
                      JObj([input_string |-> JStr(<<ToString(n)>>), lenses |-> JArr(<<>>)]))],
     [fn |-> "call_tool", message |-> create_tool_call_message("nope", JObj(EmptyDict))],
     [fn |-> "list_tools", message |-> MCPMessage("list_tools", JObj(EmptyDict))]}

\* What the client's variables leave alone.
notClient == <<connections, pc, inbox, cur, resp, last, nin, nout, running, server,
               tools, call>>

\* connect (lines 151-163).
Connect ==
    /\ client.websocket = None
    /\ client' = [client EXCEPT !.websocket = "open"]
    /\ UNCHANGED <<notClient, schema_cache>>

\* send_message up to its await of recv (lines 181-190): the message is
\* written to the socket and the call waits for a frame.
Begin(r) ==
    /\ client.websocket # None
    /\ client.pending = <<>>
    /\ client.calls < MaxCalls
    /\ client' = [client EXCEPT
                     !.calls = @ + 1,
                     !.wire = Append(@, [raw |-> [text |-> "json", obj |-> to_dict(r.message)],
                                         call |-> client.calls + 1]),
                     !.pending = <<[call |-> client.calls + 1, fn |-> r.fn]>>]
    /\ UNCHANGED <<notClient, schema_cache>>

\* call_tool (lines 217-223) up to the await.
CallTool == \E r \in ClientCalls(client.calls + 1) : r.fn = "call_tool" /\ Begin(r)

\* list_tools (lines 241-242) up to the await.
ListTools == \E r \in ClientCalls(client.calls + 1) : r.fn = "list_tools" /\ Begin(r)

\* The server's loop takes the next frame of the connection, handles it
\* and sends the envelope (lines 91-129).
Serve ==
    /\ client.wire # <<>>
    /\ ~FrameDiverges(Head(client.wire).raw)
    /\ \E lib \in IterOnInvalid :
       \E out \in {LoopBody(Head(client.wire).raw, schema_cache, lib)} :
          /\ client' = [client EXCEPT
                           !.wire = Tail(@),
                           !.rx = Append(@, [env |-> out.send,
                                             call |-> Head(client.wire).call])]
          /\ schema_cache' = out.cache
    /\ UNCHANGED notClient

\* recv returns the oldest envelope the socket holds (line 190); the call
\* in progress decodes it (191-192) and returns or raises on it (225-232,
\* 244-247).
Recv ==
    /\ client.pending # <<>>
    /\ client.rx # <<>>
    /\ \E response \in {from_dict(Head(client.rx).env).val} :
          client' = [client EXCEPT
                        !.rx = Tail(@),
                        !.pending = <<>>,
                        !.ret = <<[call |-> client.pending[1].call,
                                   fn |-> client.pending[1].fn,
                                   got |-> <<Head(client.rx)>>,
                                   outcome |-> IF client.pending[1].fn = "call_tool"
                                               THEN call_tool(response)
                                               ELSE list_tools(response)]>>]
    /\ UNCHANGED <<notClient, schema_cache>>

\* asyncio.wait_for (lines 220-223) gives up on a call_tool whose recv has
\* nothing to return yet: send_message is cancelled and TimeoutError is
\* raised.  The request is already on its way; its reply, when it comes,
\* stays in the socket.
Timeout ==
    /\ client.pending # <<>>
    /\ client.pending[1].fn = "call_tool"
    /\ client.rx = <<>>
    /\ client' = [client EXCEPT
                     !.pending = <<>>,
                     !.ret = <<[call |-> client.pending[1].call,
                                fn |-> client.pending[1].fn,
                                got |-> <<>>,
                                outcome |-> [returned |-> FALSE, raised |-> "TimeoutError"]]>>]
    /\ UNCHANGED <<notClient, schema_cache>>

ClientNext == Connect \/ CallTool \/ ListTools \/ Serve \/ Recv \/ Timeout

ClientSpec == Init /\ [][ClientNext]_vars

\* ------------------------------------------- the codec, called directly
\* MCPMessage.to_dict and MCPMessage.from_dict (messages.py lines 35-55)
\* on envelopes of every shape the dataclass allows.

\* id: Optional[str], the empty string included.
MessageIds == {None, "", "x", "req-1"}

\* timestamp: Optional[float], 0 included.
Timestamps == {JNull, JNum(0), JNum(1), JNum(2)}

Messages ==
    [type : {"tool_call", "tool_result", "list_tools", "error"},
     data : {JObj(EmptyDict), JObj([name |-> "execute"]), JStr(<<"x">>)},
     id : MessageIds,
     timestamp : Timestamps]

\* m.to_dict().
ToDict ==
    /\ call.fn = "none"
    /\ \E m \in Messages : call' = [fn |-> "to_dict", m |-> m, ret |-> to_dict(m)]
    /\ UNCHANGED <<serverVars, client>>

\* MCPMessage.from_dict(d), d being what to_dict returned.
FromDict ==
    /\ call.fn = "to_dict"
    /\ call' = [fn |-> "from_dict", m |-> call.m, d |-> call.ret, ret |-> from_dict(call.ret)]
    /\ UNCHANGED <<serverVars, client>>

CodecNext == ToDict \/ FromDict

CodecSpec == Init /\ [][CodecNext]_vars

\* ==================================================================claims
Open(c) == pc[c] \in {"receiving", "dispatching", "sending"}
Answered(c) == last[c] # <<>>
Pending(c) == resp[c] # <<>>

\* C1: on every connection the envelopes arrive in the order of the frames:
\* the k-th envelope the client receives answers the k-th frame it wrote,
\* and the envelope about to be sent answers the frame after that.
C1_ResponsesInOrder ==
    \A c \in Conns :
        /\ Answered(c) => last[c][1].req.seq = nout[c]
        /\ Pending(c) => resp[c][1].req.seq = nout[c] + 1

\* The second frame was written before the first was answered, and both
\* have been answered.
C1_Witness ==
    \E c \in Conns :
        /\ nout[c] = 2
        /\ last[c][1].req.seq = 2
        /\ last[c][1].req.early

\* C2: the tool_result for a call to a registered tool echoes the call's
\* data.id as tool_call_id, and the k-th reply echoes the k-th call's id.
C2_ToolCallIdEchoed ==
    \A c \in Conns :
        (Answered(c) /\ IsRegisteredCall(last[c][1].req.raw)) =>
            /\ last[c][1].env.type = "tool_result"
            /\ last[c][1].env.data.tool_call_id = Get(last[c][1].req.raw.obj.data.obj, "id")
            /\ last[c][1].req.seq = nout[c]

\* Two calls in sequence on one connection, the second answered with its id.
C2_Witness ==
    \E c \in Conns :
        /\ nout[c] = 2
        /\ IsRegisteredCall(last[c][1].req.raw)
        /\ last[c][1].req.prev = "other"
        /\ ~last[c][1].req.early
        /\ last[c][1].env.data.tool_call_id = IdOf(c, 2)

\* The payloads the handler of this call can return, whatever the cache
\* holds: is p one of them?
OwnPayload(raw, p) ==
    \E k \in Caches : \E lib \in IterOnInvalid :
        \E h \in {CallHandler(tools[raw.obj.data.obj.name].handler, ParamsOf(raw), k, lib)} :
            h.payload.ok /\ h.payload.val = p

\* C3: every envelope a connection receives, or is about to be sent,
\* answers a frame of that same connection; for a call to a registered tool
\* it carries the id that connection sent and a result computed from that
\* call's parameters.
C3_OwnResponseOnly ==
    \A c \in Conns :
        /\ Pending(c) => resp[c][1].req.conn = c
        /\ Answered(c) =>
              /\ last[c][1].req.conn = c
              /\ IsRegisteredCall(last[c][1].req.raw) =>
                    /\ last[c][1].env.data.tool_call_id =
                           Get(last[c][1].req.raw.obj.data.obj, "id")
                    /\ OwnPayload(last[c][1].req.raw, last[c][1].env.data.result)

\* One connection has received the result of its call while the other
\* connection's call, written before that, is still waiting to be sent.
C3_Witness ==
    \E c, d \in Conns :
        /\ c # d
        /\ Answered(c)
        /\ IsRegisteredCall(last[c][1].req.raw)
        /\ last[c][1].env.data.tool_call_id = IdOf(c, 1)
        /\ Pending(d)
        /\ IsRegisteredCall(resp[d][1].req.raw)
        /\ resp[d][1].env.data.tool_call_id = IdOf(d, 1)

IsListTools(raw) == Decodable(raw) /\ raw.obj.type = "list_tools"

\* C4: a frame that cannot be decoded gets exactly one error envelope, runs
\* no handler and does not end the connection's loop, which stays
\* registered; a list_tools frame is answered with tools_list, also right
\* after such a frame.
C4_BadFrameSurvived ==
    \A c \in Conns :
        /\ (Pending(c) /\ ~Decodable(resp[c][1].req.raw)) =>
              /\ resp[c][1].env.type = "error"
              /\ resp[c][1].invoked = None
              /\ c \in connections
        /\ (Answered(c) /\ ~Decodable(last[c][1].req.raw)) =>
              /\ last[c][1].env.type = "error"
              /\ last[c][1].invoked = None
              /\ last[c][1].req.seq = nout[c]
        /\ (pc[c] = "failed") => Decodable(cur[c][1].raw)
        /\ (Answered(c) /\ IsListTools(last[c][1].req.raw)) =>
              last[c][1].env.type = "tools_list"

\* A list_tools frame written right after an undecodable one has been
\* answered with tools_list on a connection that is still registered.
C4_Witness ==
    \E c \in Conns :
        /\ Answered(c)
        /\ nout[c] = 2
        /\ last[c][1].req.prev = "undecodable"
        /\ IsListTools(last[c][1].req.raw)
        /\ last[c][1].env.type = "tools_list"
        /\ c \in connections

C6_HandlerFailureIsLocal ==
    \A c \in Conns :
        /\ (Pending(c) /\ IsFailingCall(resp[c][1].req.raw)) =>
              /\ resp[c][1].env.type = "tool_result"
              /\ c \in connections
        /\ (Answered(c) /\ IsFailingCall(last[c][1].req.raw)) =>
              /\ last[c][1].env.type = "tool_result"
              /\ last[c][1].invoked # None
        /\ (pc[c] = "failed") => ~IsFailingCall(cur[c][1].raw)
        /\ (Answered(c) /\ last[c][1].req.prev = "failing") =>
              /\ last[c][1].req.seq = nout[c]
              /\ IsListTools(last[c][1].req.raw) => last[c][1].env.type = "tools_list"
              /\ IsRegisteredCall(last[c][1].req.raw) => last[c][1].env.type = "tool_result"

\* A failing call was answered with a tool_result and the call written
\* after it has been answered too.
C6_Witness ==
    \E c \in Conns :
        /\ Answered(c)
        /\ nout[c] = 2
        /\ last[c][1].req.prev = "failing"
        /\ IsRegisteredCall(last[c][1].req.raw)
        /\ ~IsFailingCall(last[c][1].req.raw)
        /\ last[c][1].env.type = "tool_result"
        /\ c \in connections

\* The execution engine turns this execute call down: execute_facet hands
\* back its error dict.
EngineRejects(raw) ==
    /\ IsRegisteredCall(raw)
    /\ raw.obj.data.obj.name = "execute"
    /\ Subscript(ParamsOf(raw), <<"facet_source">>).exc = None
    /\ ~FrameDiverges(raw)
    /\ "error" \in DOMAIN execute_facet(ParamsOf(raw).obj.facet_source,
                                        GetD(ParamsOf(raw).obj, "variables", JDict(<<>>)))

\* C7: for an execute call whose document the engine rejects, the
\* tool_result's data.result has success = false and carries error and
\* error_type.
C7_RejectedDocReported ==
    \A c \in Conns :
        (Answered(c) /\ EngineRejects(last[c][1].req.raw)) =>
            /\ last[c][1].env.type = "tool_result"
            /\ last[c][1].env.data.result.success = FALSE
            /\ "error" \in DOMAIN last[c][1].env.data.result
            /\ "error_type" \in DOMAIN last[c][1].env.data.result

HasError(d) == "error" \in DOMAIN d \/ "error_type" \in DOMAIN d

\* C8: every payload a handler returns is a success payload with no error
\* or error_type at any level, or success = false with error and error_type
\* and no result.
C8_PayloadShape ==
    \A c \in Conns :
        (Answered(c) /\ last[c][1].invoked # None) =>
            \/ /\ last[c][1].env.data.result.success = TRUE
               /\ ~HasError(last[c][1].env.data.result)
               /\ "result" \in DOMAIN last[c][1].env.data.result =>
                      ~HasError(last[c][1].env.data.result.result)
            \/ /\ last[c][1].env.data.result.success = FALSE
               /\ "error" \in DOMAIN last[c][1].env.data.result
               /\ "error_type" \in DOMAIN last[c][1].env.data.result
               /\ "result" \notin DOMAIN last[c][1].env.data.result

\* C9: every tool_result envelope carries in its data a success flag equal
\* to the handler's outcome, and call_tool returns the tool's result when
\* the handler succeeded.
C9_SuccessFlagCarried ==
    \A c \in Conns :
        (Answered(c) /\ last[c][1].env.type = "tool_result") =>
            /\ "success" \in DOMAIN last[c][1].env.data
            /\ last[c][1].env.data.success = last[c][1].env.data.result.success
            /\ last[c][1].env.data.result.success =>
                  /\ last[c][1].call_tool.returned
                  /\ last[c][1].call_tool.value = last[c][1].env.data.result

\* The handler running on connection c never returns.
Hung(c) == pc[c] = "dispatching" /\ FrameDiverges(cur[c][1].raw)

\* C10: while a handler that never returns is pending on one connection,
\* a valid frame waiting on another open connection is eventually answered
\* (unless that connection's client closes it first).
C10_HangBlocksOnlyItsConnection ==
    \A c, d \in Conns : \A n \in 1..MaxFrames :
        (c # d) =>
            ((/\ Hung(c)
              /\ Open(d)
              /\ inbox[d] # <<>>
              /\ inbox[d][1].seq = n
              /\ Decodable(inbox[d][1].raw)
              /\ ~FrameDiverges(inbox[d][1].raw))
             ~> (nout[d] >= n \/ ~Open(d)))

\* The loop of connection c ends in this step.
Ends(c) == Open(c) /\ ~Open(c)'

\* C11: when the loop of one connection ends (the peer closes, the
\* transport fails, a reply cannot be sent), no other connection enters or
\* leaves the live set, no other connection's task, frame in hand or
\* pending reply changes, and the listener goes on taking connections.
C11_EndingIsLocal ==
    [][\A c \in Conns :
          Ends(c) =>
              /\ \A d \in Conns \ {c} :
                    /\ (d \in connections') = (d \in connections)
                    /\ pc'[d] = pc[d]
                    /\ cur'[d] = cur[d]
                    /\ resp'[d] = resp[d]
                    /\ inbox'[d] = inbox[d]
              /\ Listening' = Listening]_vars

\* A reply to c could not be sent and c's loop has ended, while the reply
\* to d's frame is still pending on the registered connection d and the
\* listener takes connections.
C11_Witness ==
    \E c, d \in Conns :
        /\ c # d
        /\ pc[c] = "dropped"
        /\ nin[c] = 1
        /\ nout[c] = 0
        /\ inbox[c] = <<>>
        /\ pc[d] = "sending"
        /\ Pending(d)
        /\ connections = {d}
        /\ Listening

\* C12: the live set holds exactly the connections whose receive loop is
\* running, whichever way a loop ended, and a connection enters it only
\* when it is accepted: never again after its loop has ended.
C12_LiveSetIsRunningLoops ==
    /\ [](connections = {c \in Conns : Open(c)})
    /\ [][\A c \in Conns :
            (c \in connections' /\ c \notin connections) => pc[c] = "idle"]_vars

\* One loop has ended by a normal close and the other because a reply
\* could not be sent; the live set is empty.
C12_Witness ==
    \E c, d \in Conns :
        /\ pc[c] = "closed"
        /\ nout[c] = 1
        /\ pc[d] = "dropped"
        /\ nin[d] = 1
        /\ nout[d] = 0
        /\ server = "serving"
        /\ connections = {}

\* stop_server has called self.server.close().
Stopped == server # "serving"

\* C13: once stop_server has been called no connection is accepted or
\* registered, a reply in flight either reaches its own client whole or is
\* dropped and never shows up on another connection, the listener is
\* closed, and wait_closed (hence start_server) eventually returns.
C13_ShutdownCompletes ==
    /\ [][Stopped =>
            /\ connections' \subseteq connections
            /\ \A c \in Conns : pc[c] = "idle" => pc'[c] = "idle"]_vars
    /\ [][\A c \in Conns :
            (Stopped /\ Pending(c) /\ ~Pending(c)') =>
                /\ \A d \in Conns \ {c} : last'[d] = last[d]
                /\ \/ last'[c] = last[c]
                   \/ last'[c][1].env = resp[c][1].env]_vars
    /\ [](Stopped => ~Listening)
    /\ (server = "closing") ~> (server = "closed")

\* A validate_schema call that reaches SchemaValidator.validate, and the
\* schema it passes.
IsValidateCall(raw) ==
    /\ IsRegisteredCall(raw)
    /\ raw.obj.data.obj.name = "validate_schema"
    /\ Subscript(ParamsOf(raw), <<"json_object", "json_schema">>).exc = None
SchemaOf(raw) == ParamsOf(raw).obj.json_schema

\* C14: the cache holds one entry per schema content; after a validate
\* call with S it holds exactly one entry for S, under S's key-sorted
\* serialization, and a further call with S or with S in another key
\* order adds nothing and uses the same validator.
C14_OneEntryPerSchema ==
    /\ \A k1, k2 \in DOMAIN schema_cache :
          schema_cache[k1].schema = schema_cache[k2].schema => k1 = k2
    /\ \A s, t \in Schemas :
          SchemaDict(s) = SchemaDict(t) =>
              \A after \in {Compile(s, schema_cache).cache} :
                  /\ schema_key(s) \in DOMAIN after
                  /\ Cardinality({k \in DOMAIN after :
                                     after[k].schema = SchemaDict(s)}) = 1
                  /\ Compile(t, after).cache = after
                  /\ validator_of(t, after) = validator_of(s, after)

\* One connection has validated against a schema and the other against
\* the same schema with its keys in the other order; the cache holds one
\* entry.
C14_Witness ==
    \E c, d \in Conns :
        /\ Answered(c) /\ IsValidateCall(last[c][1].req.raw)
        /\ Answered(d) /\ IsValidateCall(last[d][1].req.raw)
        /\ SchemaOf(last[c][1].req.raw) = GoodSchema
        /\ SchemaOf(last[d][1].req.raw) = GoodSchemaReordered
        /\ last[c][1].env.data.result.valid
        /\ last[d][1].env.data.result.valid
        /\ Cardinality(DOMAIN schema_cache) = 1

\* The outcome validate gives for a schema that check_schema turns down.
SchemaErrorOutcome == ValidationResult(FALSE, JSet({"Invalid schema"}), JNull)

\* C15: validate with an invalid schema returns the schema-error outcome,
\* on the first call and on every later one, whatever the cache holds and
\* whatever the library does with the stored validator.
C15_InvalidSchemaAlwaysSchemaError ==
    \A s \in Schemas : \A lib \in IterOnInvalid :
        ~SchemaIsValid(SchemaDict(s)) =>
            validate(JObj(EmptyDict), JDict(s), schema_cache, lib).res = SchemaErrorOutcome

\* C16: in every step the validator cache keeps each entry it holds, with
\* the same validator, and in every state a validate call is served by the
\* validator built from its own schema.
C16_CacheOnlyGrows ==
    /\ [][\A k \in DOMAIN schema_cache :
            k \in DOMAIN schema_cache' /\ schema_cache'[k] = schema_cache[k]]_vars
    /\ [](\A s \in Schemas :
            validator_of(s, Compile(s, schema_cache).cache).schema = SchemaDict(s))

\* Two connections have each validated against a schema of their own and
\* the cache holds both entries.
C16_Witness ==
    \E c, d \in Conns :
        /\ c # d
        /\ Answered(c) /\ IsValidateCall(last[c][1].req.raw)
        /\ Answered(d) /\ IsValidateCall(last[d][1].req.raw)
        /\ SchemaOf(last[c][1].req.raw) = GoodSchema
        /\ SchemaOf(last[d][1].req.raw) = BadSchema
        /\ DOMAIN schema_cache = {schema_key(GoodSchema.items), schema_key(BadSchema.items)}

\* A validate_schema call whose schema check_schema turns down.
IsInvalidSchemaCall(raw) ==
    /\ IsValidateCall(raw)
    /\ SchemaOf(raw).ty = "object"
    /\ ~SchemaIsValid(SchemaDict(SchemaOf(raw).items))

\* C17: a validate_schema call with an invalid schema is answered with
\* success = false and an error kind, not with success = true and
\* valid = false as data failing a valid schema is.
C17_SchemaErrorIsDistinct ==
    \A c \in Conns :
        (Answered(c) /\ IsInvalidSchemaCall(last[c][1].req.raw)) =>
            /\ last[c][1].env.type = "tool_result"
            /\ last[c][1].env.data.result.success = FALSE
            /\ "error_type" \in DOMAIN last[c][1].env.data.result

\* The list_tools envelope, as from_dict builds it.
ListToolsMessage ==
    [type |-> "list_tools", data |-> JObj(EmptyDict), id |-> None, timestamp |-> JNull]

\* C18: a list_tools envelope is answered with a tools_list envelope that
\* lists execute, apply_lenses and validate_schema once each, every entry
\* holding name, description and parameters and nothing else; the reply
\* does not depend on what was handled before.
C18_ToolsListComplete ==
    /\ \A lib \in IterOnInvalid :
          \A r \in {handle_message(ListToolsMessage, schema_cache, lib)} :
              /\ r.ok
              /\ r.val.response.type = "tools_list"
              /\ r.val.invoked = None
              /\ \A c \in Conns :
                    (Answered(c) /\ IsListTools(last[c][1].req.raw)) =>
                        /\ last[c][1].env = to_dict(r.val.response)
                        /\ last[c][1].invoked = None
              /\ \A list \in {r.val.response.data.tools} :
                    /\ Len(list) = 3
                    /\ {list[i].name : i \in 1..Len(list)}
                          = {"execute", "apply_lenses", "validate_schema"}
                    /\ \A i \in 1..Len(list) :
                          /\ DOMAIN list[i] = {"name", "description", "parameters"}
                          /\ list[i].description = tools[list[i].name].description
                          /\ list[i].parameters = tools[list[i].name].parameters

\* A list_tools frame written after a failing tool call has been answered
\* with the tools list.
C18_Witness ==
    \E c \in Conns :
        /\ Answered(c)
        /\ nout[c] = 2
        /\ IsListTools(last[c][1].req.raw)
        /\ last[c][1].req.prev = "failing"
        /\ last[c][1].env.type = "tools_list"
        /\ Len(last[c][1].env.data.tools) = 3

\* Envelope types other than tool_call and list_tools: the other message
\* types of the protocol and a string it does not know.
OtherTypes == {"ping", "pong", "tool_result", "tools_list", "error", "zzz"}

\* A decodable frame whose type is neither tool_call nor list_tools.
IsOtherType(raw) == Decodable(raw) /\ raw.obj.type \notin {"tool_call", "list_tools"}

\* C19: an envelope whose type is neither tool_call nor list_tools is
\* answered with an error envelope that names the type it carried, and no
\* handler runs.
C19_UnknownTypeNamed ==
    /\ \A t \in OtherTypes : \A lib \in IterOnInvalid :
          handle_message([type |-> t, data |-> JObj(EmptyDict),
                          id |-> None, timestamp |-> JNull], schema_cache, lib)
            = Ok([response |-> MCPMessage("error",
                                          [error |-> "Unknown message type: " \o t]),
                  cache |-> schema_cache, invoked |-> None])
    /\ \A c \in Conns :
          (Answered(c) /\ IsOtherType(last[c][1].req.raw)) =>
              /\ last[c][1].env.type = "error"
              /\ last[c][1].env.data.error
                    = "Unknown message type: " \o last[c][1].req.raw.obj.type
              /\ last[c][1].invoked = None

\* A ping frame has been answered with the error that names ping.
C19_Witness ==
    \E c \in Conns :
        /\ Answered(c)
        /\ IsOtherType(last[c][1].req.raw)
        /\ last[c][1].req.raw.obj.type = "ping"
        /\ last[c][1].env.data.error = "Unknown message type: ping"

\* C20: the error envelope for an unknown message type carries
\* available_tools, the registered tool names, as the one for an unknown
\* tool does.
C20_UnknownTypeListsTools ==
    \A c \in Conns :
        (Answered(c) /\ IsOtherType(last[c][1].req.raw)) =>
            /\ last[c][1].env.type = "error"
            /\ "available_tools" \in DOMAIN last[c][1].env.data
            /\ Range(last[c][1].env.data.available_tools) = DOMAIN tools

\* The envelope of this frame carries an id of its own.
HasEnvelopeId(raw) == Decodable(raw) /\ from_dict(raw.obj).val.id # None

\* C21: a tool_call envelope with envelope id X that reaches a handler is
\* answered with a tool_result envelope whose envelope id is X.
C21_EnvelopeIdRoundTrips ==
    \A c \in Conns :
        (Answered(c) /\ IsRegisteredCall(last[c][1].req.raw)
                     /\ HasEnvelopeId(last[c][1].req.raw)) =>
            /\ last[c][1].env.type = "tool_result"
            /\ "id" \in DOMAIN last[c][1].env
            /\ last[c][1].env.id = last[c][1].req.raw.obj.id

\* What handling the decoded frame raw comes to, as far as raising goes:
\* from_dict raises, or handle_message does (no handler raises, so the
\* cache it is given does not matter).
Escaped(raw) ==
    IF ~from_dict(raw.obj).ok THEN from_dict(raw.obj)
    ELSE handle_message(from_dict(raw.obj).val, EmptyDict, "clean")

\* A frame that decodes as JSON and whose handling raises an exception
\* that reaches the except clause of the connection loop.
EscapesDispatch(raw) == json_loads(raw).ok /\ ~Escaped(raw).ok

\* C22: when an exception escapes while a decoded frame is handled, the
\* loop sends one generic error envelope that carries the class name of
\* the exception, runs no handler and stays in the live set to receive the
\* next frame.
C22_EscapedExceptionNamed ==
    \A c \in Conns :
        /\ (Pending(c) /\ EscapesDispatch(resp[c][1].req.raw)) => c \in connections
        /\ (pc[c] = "failed") => ~EscapesDispatch(cur[c][1].raw)
        /\ (Answered(c) /\ EscapesDispatch(last[c][1].req.raw)) =>
              /\ last[c][1].env.type = "error"
              /\ last[c][1].invoked = None
              /\ last[c][1].req.seq = nout[c]
              /\ last[c][1].env.data.error
                    = "Internal server error: " \o Escaped(last[c][1].req.raw).exc

\* C23: the tool registry never changes: in every state its keys are
\* execute, apply_lenses and validate_schema, each key is the name of its
\* descriptor, and no step (a message handled, a tool failure, a
\* connection accepted or ended, the shutdown) changes any descriptor's
\* description, parameters or handler.
C23_RegistryImmutable ==
    /\ [](/\ DOMAIN tools = {"execute", "apply_lenses", "validate_schema"}
          /\ \A k \in DOMAIN tools :
                /\ tools[k].name = k
                /\ DOMAIN tools[k] = {"name", "description", "parameters", "handler"})
    /\ [][/\ DOMAIN tools' = DOMAIN tools
          /\ \A k \in DOMAIN tools :
                /\ tools'[k].name = tools[k].name
                /\ tools'[k].description = tools[k].description
                /\ tools'[k].parameters = tools[k].parameters
                /\ tools'[k].handler = tools[k].handler]_vars

\* One connection has been answered a failing tool call and has ended,
\* the other has been answered a call to an unknown tool, and the
\* registry still holds its three tools.
C23_Witness ==
    \E c, d \in Conns :
        /\ c # d
        /\ Answered(c) /\ IsFailingCall(last[c][1].req.raw)
        /\ pc[c] = "closed"
        /\ Answered(d) /\ IsToolCall(last[d][1].req.raw)
        /\ ~IsRegisteredCall(last[d][1].req.raw)
        /\ Cardinality(DOMAIN tools) = 3
        /\ tools = _initialize_tools

\* The left fold of _apply_single_lens over lenses, from text: the fold
\* over all but the last lens, then the last lens on what that gave.
RECURSIVE FoldLeft(_, _)
FoldLeft(text, lenses) ==
    IF lenses = <<>> THEN Ok(text)
    ELSE The({IF r.ok THEN _apply_single_lens(r.val, lenses[Len(lenses)]) ELSE r :
              r \in {FoldLeft(text, SubSeq(lenses, 1, Len(lenses) - 1))}})

\* C24: apply_lenses_to_text applies the lenses in list order: it returns
\* exactly when the left fold of the single-lens application over the list
\* does, and then returns the fold's value; for the empty list it returns
\* the input text.
C24_LensesLeftToRight ==
    (call.fn = "apply_lenses_to_text") =>
        /\ call.ret.ok = FoldLeft(JStr(call.text), call.lenses).ok
        /\ call.ret.ok => call.ret.val = FoldLeft(JStr(call.text), call.lenses).val
        /\ (call.lenses = <<>>) => call.ret = Ok(JStr(call.text))

\* trim and then limit(1) on " ab " has returned "a"; in the other order
\* the two lenses give the empty text.
C24_Witness ==
    /\ call.fn = "apply_lenses_to_text"
    /\ call.text = <<" ", "a", "b", " ">>
    /\ call.lenses = << <<"trim">>, <<"limit", "(", "1", ")">> >>
    /\ call.ret = Ok(JStr(<<"a">>))

\* The lens names the library knows here.
KnownLenses == {"trim", "limit"}

\* A bare known lens name, or a known name followed by exactly one
\* parenthesised integer.
WellFormedSpec(lens_spec) ==
    \/ Len(lens_spec) = 1 /\ lens_spec[1] \in KnownLenses
    \/ /\ Len(lens_spec) = 4
       /\ lens_spec[1] \in KnownLenses
       /\ lens_spec[2] = "("
       /\ IsInt(<<lens_spec[3]>>)
       /\ lens_spec[4] = ")"

\* The text of the error for the lens specification lens_spec, whose
\* application failed with the text inner.
LensErrorText(lens_spec, inner) ==
    "Error applying lenses: Error applying lens '" \o Join(lens_spec) \o "': " \o inner

\* C25: when the lenses before it have been applied, a specification that
\* is neither a bare known name nor a known name with exactly one
\* parenthesised integer makes apply_lenses_to_text fail with an error that
\* names that specification; no later lens is applied.
C25_MalformedLensRejected ==
    (call.fn = "apply_lenses_to_text") =>
        \A i \in 1..Len(call.lenses) :
            (/\ ~WellFormedSpec(call.lenses[i])
             /\ FoldLeft(JStr(call.text), SubSeq(call.lenses, 1, i - 1)).ok) =>
                /\ ~call.ret.ok
                /\ call.ret.exc = "ValueError"
                /\ \E inner \in {"unknown lens",
                                  "Unsupported lens arguments: "
                                     \o Join(LensSpec(call.lenses[i]).args_str)} :
                      call.ret.msg = LensErrorText(call.lenses[i], inner)

BraceFree(key) == "{" \notin Chars(key) /\ "}" \notin Chars(key)
KeysOf(variables) == {variables[i][1] : i \in DOMAIN variables}

\* The text p stands in s from position i on.
OccursAt(s, p, i) == i + Len(p) - 1 <= Len(s) /\ SubSeq(s, i, i + Len(p) - 1) = p

\* ret, the result of substituting variables into facet_source, holds
\* every placeholder of key as facet_source wrote it: with what the
\* substitution makes of the text before it on its left and of the text
\* after it on its right.
LeftVerbatim(facet_source, variables, ret, key) ==
    \A i \in 1..Len(facet_source) :
        OccursAt(facet_source, Placeholder(key), i) =>
            ret = substitute_variables(SubSeq(facet_source, 1, i - 1), variables)
                    \o Placeholder(key)
                    \o substitute_variables(
                          SubSeq(facet_source, i + Len(Placeholder(key)), Len(facet_source)),
                          variables)

\* The keys a placeholder of the sources can name that variables lacks.
MissingKeys(variables) == {key \in Keys \ KeysOf(variables) : BraceFree(key)}

\* C26 as stated: for every source and every mapping, every placeholder
\* whose key is not in the mapping is left as written, and with the empty
\* mapping the result is the source.
C26_MissingKeyLeftVerbatim ==
    (call.fn = "substitute_variables") =>
        /\ \A key \in MissingKeys(call.variables) :
              LeftVerbatim(call.facet_source, call.variables, call.ret, key)
        /\ (call.variables = <<>>) => call.ret = call.facet_source

\* C26, amended: for every source and every mapping none of whose keys
\* holds a brace, every placeholder whose key is not in the mapping is
\* left as written, and with the empty mapping the result is the source.
C26_MissingKeyLeftVerbatim_BraceFree ==
    (call.fn = "substitute_variables") =>
        /\ (\A k \in KeysOf(call.variables) : BraceFree(k)) =>
              \A key \in MissingKeys(call.variables) :
                  LeftVerbatim(call.facet_source, call.variables, call.ret, key)
        /\ (call.variables = <<>>) => call.ret = call.facet_source

\* {{a}}{{b}}{{a}} with a alone in the mapping has come back as y{{b}}y.
C26_Witness ==
    /\ call.fn = "substitute_variables"
    /\ ~call.again
    /\ call.facet_source = Placeholder(<<"a">>) \o Placeholder(<<"b">>) \o Placeholder(<<"a">>)
    /\ call.variables = << <<<<"a">>, JStr(<<"y">>)>> >>
    /\ call.ret = <<"y">> \o Placeholder(<<"b">>) \o <<"y">>

\* s holds a {{...}}-shaped token: an opening pair of braces and, after
\* it, a closing pair.
HasToken(s) ==
    \E i, j \in 1..Len(s) :
        /\ OccursAt(s, <<"{", "{">>, i)
        /\ OccursAt(s, <<"}", "}">>, j)
        /\ j >= i + 2

\* No value of variables, as substitute_variables writes it, holds a token.
NoTokenValues(variables) ==
    \A i \in 1..Len(variables) : ~HasToken(Render(variables[i][2]))

\* C27: when no value of the mapping holds a {{...}}-shaped token,
\* substituting the same mapping into the result of a substitution gives
\* that result again.
C27_SubstituteIdempotent ==
    (call.fn = "substitute_variables" /\ call.again /\ NoTokenValues(call.variables)) =>
        call.ret = call.facet_source

\* The latest envelope connection c received is a validate_schema tool
\* result with success = true.
ValidateSucceeded(c) ==
    /\ Answered(c)
    /\ last[c][1].invoked = "_handle_validate_schema"
    /\ last[c][1].env.type = "tool_result"
    /\ last[c][1].env.data.result.success = TRUE

\* C28: in every successful validate_schema result, errors is null
\* exactly when valid is true, and a non-empty list of messages exactly
\* when valid is false.
C28_ErrorsIffInvalid ==
    \A c \in Conns :
        ValidateSucceeded(c) =>
            \A r \in {last[c][1].env.data.result} :
                /\ r.valid \in BOOLEAN
                /\ r.valid <=> (r.errors = JNull)
                /\ (~r.valid) <=> (r.errors.ty = "array" /\ r.errors.members # {})

\* One connection has been told that its data is valid, with errors
\* null, the other that its data lacks name, with that one error.
C28_Witness ==
    \E c, d \in Conns :
        /\ ValidateSucceeded(c)
        /\ last[c][1].env.data.result.valid
        /\ last[c][1].env.data.result.errors = JNull
        /\ ValidateSucceeded(d)
        /\ ~last[d][1].env.data.result.valid
        /\ last[d][1].env.data.result.errors = JSet({"name"})

\* C29: a successful validate_schema result carries validated_data: the
\* submitted json_object when the data is valid, null when it is not.
C29_ValidatedDataCarried ==
    \A c \in Conns :
        ValidateSucceeded(c) =>
            \A r \in {last[c][1].env.data.result} :
                /\ "validated_data" \in DOMAIN r
                /\ r.valid => r.validated_data = ParamsOf(last[c][1].req.raw).obj.json_object
                /\ (~r.valid) => r.validated_data = JNull

\* A tool_call envelope whose data is a mapping without a name.
IsNamelessCall(raw) == IsToolCall(raw) /\ "name" \notin DOMAIN raw.obj.data.obj

\* C30: a tool_call whose data has no name is answered with an error
\* envelope that says the tool name is missing, which is not the error an
\* unknown tool gets, and no handler runs.
C30_MissingNameReported ==
    \A c \in Conns :
        (Answered(c) /\ IsNamelessCall(last[c][1].req.raw)) =>
            /\ last[c][1].env.type = "error"
            /\ last[c][1].invoked = None
            /\ last[c][1].env.data # UnknownToolData(None)
            /\ "available_tools" \notin DOMAIN last[c][1].env.data

\* C31: while a connection stays open the loop sends exactly one envelope
\* for each frame it reads.  No step delivers more than one envelope; the
\* loop lets go of the frame it is handling only by delivering one envelope
\* that answers this very frame; an envelope is delivered only for the
\* frame in hand; and at every moment the frames written are those still
\* queued, the one in hand and one per envelope received.
C31_OneEnvelopePerFrame ==
    /\ [](\A c \in Conns :
             Open(c) => /\ Len(cur[c]) <= 1
                        /\ nin[c] = nout[c] + Len(cur[c]) + Len(inbox[c]))
    /\ [][\A c \in Conns :
             /\ nout'[c] \in {nout[c], nout[c] + 1}
             /\ (Open(c) /\ Open(c)' /\ cur[c] # <<>> /\ cur'[c] # cur[c]) =>
                   /\ nout'[c] = nout[c] + 1
                   /\ cur'[c] = <<>>
                   /\ last'[c][1].req = cur[c][1]
             /\ nout'[c] # nout[c] =>
                   /\ cur[c] # <<>>
                   /\ last'[c][1].req = cur[c][1]
                   /\ last'[c][1].req.seq = nout'[c]]_vars

\* A connection, still open, has written two frames and received two
\* envelopes: an error envelope for a frame without a type field, then the
\* internal-error envelope for a tool_call whose data is no mapping.
C31_Witness ==
    \E c \in Conns :
        /\ Open(c)
        /\ nin[c] = 2 /\ nout[c] = 2
        /\ last[c][1].req.seq = 2
        /\ last[c][1].req.prev = "undecodable"
        /\ EscapesDispatch(last[c][1].req.raw)
        /\ last[c][1].env.type = "error"

\* The receive loop of connection c has ended: its task has run the
\* finally clause (line 137) and returned.
HasEnded(c) == pc[c] \in {"closed", "dropped", "failed"}

\* Where the task of a connection stands, in the terms of the state machine
\* Open -> Receiving -> (Dispatching -> Receiving)* -> Closed: "idle" is
\* before Open, "receiving" is Open/Receiving, "dispatching" and "sending"
\* are Dispatching (the frame is handled, then its reply sent), and the
\* three ways a loop ends are Closed.
\* The moves of that state machine: Closed is entered from Receiving only.
LifecycleMoves ==
    {<<"idle", "receiving">>,
     <<"receiving", "dispatching">>, <<"dispatching", "sending">>,
     <<"sending", "receiving">>,
     <<"receiving", "closed">>, <<"receiving", "dropped">>}

\* Line 105 or 129 raises because the peer is gone: the loop ends with the
\* reply unsent, straight from Dispatching.
SendFailureMove == <<"sending", "dropped">>

\* At most one frame in hand and one reply pending, and they belong to the
\* place the task is at.
OneInFlight(c) ==
    /\ Len(cur[c]) <= 1
    /\ Len(resp[c]) <= 1
    /\ pc[c] \in {"idle", "receiving"} => (cur[c] = <<>> /\ resp[c] = <<>>)
    /\ pc[c] = "dispatching" => (cur[c] # <<>> /\ resp[c] = <<>> /\ running = c)
    /\ pc[c] = "sending" => (cur[c] # <<>> /\ resp[c] # <<>> /\ resp[c][1].req = cur[c][1])
    /\ HasEnded(c) => resp[c] = <<>>

\* One step, seen from connection c: its task moves along moves only; a
\* frame is read only in Receiving with nothing in hand and nothing
\* pending; an envelope reaches the client only from Dispatching; and once
\* the loop has ended nothing is read and nothing is sent.
LifecycleStep(c, moves) ==
    /\ pc'[c] # pc[c] => <<pc[c], pc'[c]>> \in moves
    /\ (cur'[c] # cur[c] /\ cur'[c] # <<>>) =>
          (pc[c] = "receiving" /\ cur[c] = <<>> /\ resp[c] = <<>>)
    /\ nout'[c] # nout[c] => (pc[c] = "sending" /\ nout'[c] = nout[c] + 1)
    /\ HasEnded(c) => /\ pc'[c] = pc[c]
                      /\ cur'[c] = cur[c]
                      /\ resp'[c] = resp[c]
                      /\ inbox'[c] = inbox[c]
                      /\ nout'[c] = nout[c]
                      /\ last'[c] = last[c]

\* C32: each connection has at most one dispatch in flight and follows
\* Open -> Receiving -> (Dispatching -> Receiving)* -> Closed: the next
\* frame is not read until the reply to the current one has been sent,
\* Closed is entered from Receiving, and after Closed no frame is read and
\* no envelope is sent on the connection.
C32_ConnectionLifecycle ==
    /\ [](\A c \in Conns : OneInFlight(c))
    /\ [][\A c \in Conns : LifecycleStep(c, LifecycleMoves)]_vars

\* C32 as it holds: the same, except that a connection may also go from
\* Dispatching straight to Closed, when the reply cannot be sent.
C32_ConnectionLifecycle_OrSendFailure ==
    /\ [](\A c \in Conns : OneInFlight(c))
    /\ [][\A c \in Conns :
             LifecycleStep(c, LifecycleMoves \cup {SendFailureMove})]_vars

\* Connection c went through Dispatching -> Receiving once (it has the
\* reply to its first frame) and then wrote a validate_schema call; that
\* call was dispatched (the validator cache has its entry) but its reply
\* never arrived, and the loop has ended.  The other connection wrote
\* nothing.
C32_Witness ==
    \E c \in Conns :
        /\ pc[c] = "dropped"
        /\ nin[c] = 2
        /\ nout[c] = 1
        /\ ~IsValidateCall(last[c][1].req.raw)
        /\ schema_cache # EmptyDict
        /\ \A d \in Conns \ {c} : nin[d] = 0

\* The handling of a validate_schema call on connection c ends, in this
\* step, in the schema-error outcome.
EndsInSchemaError(c) ==
    /\ pc[c] = "dispatching"
    /\ pc'[c] = "sending"
    /\ IsValidateCall(cur[c][1].raw)
    /\ resp'[c][1].env.data.result.errors = SchemaErrorOutcome.errors

\* C33: the validator cache holds entries only for schemas that passed
\* check_schema, in every state, and a validate call that ends in the
\* schema-error outcome leaves the cache as it was.
C33_CacheHoldsCheckedSchemas ==
    /\ [](\A k \in DOMAIN schema_cache : SchemaIsValid(schema_cache[k].schema))
    /\ [][\A c \in Conns : EndsInSchemaError(c) => schema_cache' = schema_cache]_vars

\* C34: over any sequence of call_tool and list_tools calls on one
\* connection, timeouts of earlier calls included, a call that ends on a
\* response ends on the response to its own request.
C34_OwnResponsePerCall ==
    (client.ret # <<>> /\ client.ret[1].got # <<>>) =>
        client.ret[1].got[1].call = client.ret[1].call

\* A tool_call whose data is a mapping that holds an id.
CarriesId(raw) == IsToolCall(raw) /\ "id" \in DOMAIN raw.obj.data.obj

\* The envelope env mentions id: as its own id, as tool_call_id or as id
\* in its data.
Mentions(env, id) ==
    \/ "id" \in DOMAIN env /\ env.id = id
    \/ "tool_call_id" \in DOMAIN env.data /\ env.data.tool_call_id = id
    \/ "id" \in DOMAIN env.data /\ env.data.id = id

C36_CodecRoundTrips ==
    call.fn = "from_dict" => (call.ret.ok /\ call.ret.val = call.m)

\* No value of variables, as substitute_variables writes it, holds a brace.
NoBraceValues(variables) ==
    \A i \in 1..Len(variables) : BraceFree(Render(variables[i][2]))

\* The same key/value pairs in every order.
Reorderings(variables) ==
    {q \in SeqsUpTo(Range(variables), Len(variables)) :
        Len(q) = Len(variables) /\ Range(q) = Range(variables)}

\* C37: when no value of the mapping holds a brace, substitute_variables
\* gives the same output for the same source whatever the order of the
\* mapping's key/value pairs.
C37_OrderIndependent ==
    (call.fn = "substitute_variables" /\ ~call.again /\ NoBraceValues(call.variables)) =>
        \A q \in Reorderings(call.variables) :
            substitute_variables(call.facet_source, q) = call.ret

====
